---- MODULE Spec2Model ----
(***************************************************************************)
(* State-machine model of app.py: a Flask note-taking backend over a       *)
(* PostgreSQL store.  The store is the users and notes tables with their   *)
(* SERIAL sequences; each client holds a signed session cookie; every      *)
(* handler opens one connection per request.  register() is modelled in    *)
(* two steps (existence check, then insert) because other requests may     *)
(* run between its two statements; every other handler issues a single     *)
(* statement and is one atomic step.  Any statement may raise; connecting  *)
(* succeeds.  Note bodies always carry "title" and "content".              *)
(***************************************************************************)
EXTENDS Integers, Sequences, FiniteSets, TLC

\* ---------------------------------------------------------------- bounds
MaxUserSeq == 2     \* values the users.id sequence may hand out
MaxNoteSeq == 2     \* values the notes.id sequence may hand out
MaxConns   == 1     \* connections that may be left open by handlers

\* ---------------------------------------------------------------- inputs
Clients   == {"c1", "c2"}
Workers   == {"w1", "w2"}
Usernames == {"alice", "bob"}
Emails    == {"a@x.com", "b@x.com"}
Passwords == {"pw1", "pw2"}
Salts     == {1}
Titles    == {"T1", "T2"}
Contents  == {"C1"}
FaultPoints == {"none", "execute"}

Anonymous == 0      \* "user_id" not in session
NoteIds   == 1..MaxNoteSeq

VARIABLES users, notes, userSeq, noteSeq, session, reg, openConns, resp,
          registered, deleted, created

vars == <<users, notes, userSeq, noteSeq, session, reg, openConns, resp,
          registered, deleted, created>>

store == <<users, notes, userSeq, noteSeq>>
ghost == <<registered, deleted, created>>

\* ------------------------------------------------------- password hasher
PwCode(p) == IF p = "pw1" THEN 1 ELSE IF p = "pw2" THEN 2 ELSE 3

Digest(salt, p) == (salt * 5 + PwCode(p) * 3) % 16

generate_password_hash(p, salt) == [salt |-> salt, digest |-> Digest(salt, p)]

check_password_hash_Always(h, p) == TRUE
check_password_hash(h, p) == Digest(h.salt, p) = h.digest

\* ------------------------------------------------------------ connection
get_db(n) == n + 1

conn_close_Forgotten(n) == n
conn_close(n) == n - 1

\* ------------------------------------------------------------- responses
NoResp ==
  [op |-> "none", client |-> "", user |-> Anonymous, kind |-> "returned",
   fault |-> "none", status |-> 0, body |-> "", present |-> TRUE,
   username |-> "", email |-> "", password |-> "", note_id |-> 0,
   rows |-> <<>>]

Returned(op, status, body) ==
  [NoResp EXCEPT !.op = op, !.status = status, !.body = body]

\* an exception that leaves the handler
Raised(op, fault) ==
  [NoResp EXCEPT !.op = op, !.kind = "raised", !.fault = fault]

Unauthorized_NoStatus(op) == Returned(op, 200, "Unauthorized")
Unauthorized(op) == Returned(op, 401, "Unauthorized")

\* ------------------------------------------------------------ store layer
Idle == [state |-> "idle"]

InFlight == Cardinality({w \in Workers : reg[w] # Idle})

\* connections opened by a handler that has returned without closing them
Leaked == openConns - InFlight

\* users.username UNIQUE, users.email UNIQUE
UniqueViolation_NoConstraint(row, table) == FALSE
UniqueViolation(row, table) ==
  \E u \in table : u.email = row.email \/ u.username = row.username

\* SELECT id FROM users WHERE email=%s OR username=%s
UserExists(table, email, username) ==
  \E u \in table : u.email = email \/ u.username = username

\* notes.id SERIAL: the next identifier comes from the sequence
NextNoteId_MaxPlusOne(seq, table) ==
  IF table = {} THEN 1
  ELSE (CHOOSE m \in {n.id : n \in table} : \A n \in table : n.id <= m) + 1
NextNoteId(seq, table) == seq

\* WHERE user_id=%s
SelectNotes_All(table, uid) == table
SelectNotes(table, uid) == {n \in table : n.user_id = uid}

RECURSIVE OrderByIdAsc(_)
OrderByIdAsc(S) ==
  IF S = {} THEN <<>>
  ELSE LET lo == CHOOSE n \in S : \A m \in S : n.id <= m.id
       IN  <<lo>> \o OrderByIdAsc(S \ {lo})

\* ORDER BY id DESC
RECURSIVE OrderByIdDesc(_)
OrderByIdDesc(S) ==
  IF S = {} THEN <<>>
  ELSE LET hi == CHOOSE n \in S : \A m \in S : n.id >= m.id
       IN  <<hi>> \o OrderByIdDesc(S \ {hi})

\* the JSON object built for one note
NoteJson(n) == [id |-> n.id, title |-> n.title, content |-> n.content]

NotesJson(sq) == [i \in 1..Len(sq) |-> NoteJson(sq[i])]

\* WHERE id=%s AND user_id=%s
UpdateMatch_IdOnly(n, id, uid) == n.id = id
UpdateMatch(n, id, uid) == n.id = id /\ n.user_id = uid

DeleteMatch(n, id, uid) == n.id = id /\ n.user_id = uid

GetMatch(n, id, uid) == n.id = id /\ n.user_id = uid

\* ------------------------------------------------------------------ Init
Init ==
  /\ users = {}
  /\ notes = {}
  /\ userSeq = 1
  /\ noteSeq = 1
  /\ session = [c \in Clients |-> Anonymous]
  /\ reg = [w \in Workers |-> Idle]
  /\ openConns = 0
  /\ resp = NoResp
  /\ registered = {}
  /\ deleted = {}
  /\ created = <<>>

\* -------------------------------------------------------------- register
RegisterBodies == [present : BOOLEAN, username : Usernames, email : Emails,
                   password : Passwords]

\* POST /register up to and including the existence check
register(w, data, salt, fault) ==
  /\ reg[w] = Idle
  /\ userSeq + InFlight <= MaxUserSeq
  /\ UNCHANGED <<users, notes, userSeq, noteSeq, session, ghost>>
  /\ LET tag(r) == [r EXCEPT !.username = data.username,
                             !.email = data.email]
     IN
     IF ~data.present
     THEN /\ resp' = [Returned("register", 400, "Invalid input")
                        EXCEPT !.present = FALSE]
          /\ UNCHANGED <<reg, openConns>>
     ELSE IF fault = "execute"
     THEN /\ resp' = tag([Returned("register", 500, "backend error")
                            EXCEPT !.fault = fault])
          /\ openConns' = conn_close(get_db(openConns))
          /\ UNCHANGED reg
     ELSE IF UserExists(users, data.email, data.username)
     THEN /\ resp' = tag(Returned("register", 400, "User already exists"))
          /\ openConns' = conn_close(get_db(openConns))
          /\ UNCHANGED reg
     ELSE /\ resp' = tag([Returned("register", 0, "") EXCEPT !.kind = "pending"])
          /\ openConns' = get_db(openConns)
          /\ reg' = [reg EXCEPT ![w] =
                       [state |-> "checked",
                        username |-> data.username,
                        email |-> data.email,
                        password |-> data.password,
                        password_hash |->
                          generate_password_hash(data.password, salt)]]

\* POST /register from the INSERT to the return
register_insert(w, fault) ==
  /\ reg[w] # Idle
  /\ LET r == reg[w]
         row == [id |-> userSeq, username |-> r.username, email |-> r.email,
                 password_hash |-> r.password_hash]
         tag(x) == [x EXCEPT !.username = r.username, !.email = r.email]
     IN
     /\ reg' = [reg EXCEPT ![w] = Idle]
     /\ openConns' = conn_close(openConns)
     /\ UNCHANGED <<notes, noteSeq, session, deleted, created>>
     /\ IF fault = "execute"
        THEN /\ resp' = tag([Returned("register", 500, "backend error")
                               EXCEPT !.fault = fault])
             /\ \E adv \in {0, 1} : userSeq' = userSeq + adv
             /\ UNCHANGED <<users, registered>>
        ELSE IF UniqueViolation(row, users)
        THEN /\ resp' = tag(Returned("register", 500,
                                     "duplicate key value violates unique constraint"))
             /\ userSeq' = userSeq + 1
             /\ UNCHANGED <<users, registered>>
        ELSE /\ resp' = tag(Returned("register", 201, "registered"))
             /\ users' = users \cup {row}
             /\ userSeq' = userSeq + 1
             /\ registered' = registered \cup {<<r.email, r.password>>}

\* ----------------------------------------------------------------- login
LoginBodies == [present : BOOLEAN, email : Emails, password : Passwords]

login(c, data, fault) ==
  /\ UNCHANGED <<store, reg, ghost>>
  /\ LET tag(r) == [r EXCEPT !.client = c, !.user = session[c],
                             !.present = data.present,
                             !.email = data.email,
                             !.password = data.password]
         rows == {u \in users : u.email = data.email}
     IN
     IF ~data.present
     THEN /\ resp' = [Returned("login", 400, "Invalid input")
                        EXCEPT !.client = c, !.user = session[c],
                               !.present = FALSE]
          /\ UNCHANGED <<session, openConns>>
     ELSE IF fault = "execute"
     THEN /\ resp' = tag(Raised("login", fault))
          /\ openConns' = conn_close(get_db(openConns))
          /\ UNCHANGED session
     ELSE /\ openConns' = conn_close(get_db(openConns))
          /\ \/ /\ rows = {}
                /\ resp' = tag(Returned("login", 401, "Invalid credentials"))
                /\ UNCHANGED session
             \/ \E row \in rows :
                  IF ~check_password_hash(row.password_hash, data.password)
                  THEN /\ resp' = tag(Returned("login", 401,
                                               "Invalid credentials"))
                       /\ UNCHANGED session
                  ELSE /\ resp' = tag(Returned("login", 200, "logged in"))
                       /\ session' = [session EXCEPT ![c] = row.id]

logout(c) ==
  /\ session' = [session EXCEPT ![c] = Anonymous]
  /\ resp' = [Returned("logout", 200, "logged out")
                EXCEPT !.user = session[c]]
  /\ UNCHANGED <<store, reg, openConns, ghost>>

\* ------------------------------------------------------------ notes CRUD
create_note(c, title, content, fault) ==
  /\ noteSeq <= MaxNoteSeq
  /\ UNCHANGED <<users, userSeq, session, reg, registered, deleted>>
  /\ LET uid == session[c]
         tag(r) == [r EXCEPT !.user = uid]
         id == NextNoteId(noteSeq, notes)
     IN
     IF uid = Anonymous
     THEN /\ resp' = tag(Unauthorized("create_note"))
          /\ UNCHANGED <<notes, noteSeq, openConns, created>>
     ELSE IF fault = "execute"
     THEN /\ resp' = tag(Raised("create_note", fault))
          /\ openConns' = conn_close(get_db(openConns))
          /\ \E adv \in {0, 1} : noteSeq' = noteSeq + adv
          /\ UNCHANGED <<notes, created>>
     ELSE /\ resp' = tag([Returned("create_note", 201, "note created")
                            EXCEPT !.note_id = id])
          /\ openConns' = conn_close(get_db(openConns))
          /\ notes' = notes \cup
                        {[id |-> id, title |-> title, content |-> content,
                          user_id |-> uid]}
          /\ noteSeq' = noteSeq + 1
          /\ created' = Append(created, id)

get_notes(c, fault) ==
  /\ UNCHANGED <<store, session, reg, ghost>>
  /\ LET uid == session[c]
         tag(r) == [r EXCEPT !.user = uid]
     IN
     IF uid = Anonymous
     THEN /\ resp' = tag(Returned("get_notes", 200, "list"))
          /\ UNCHANGED openConns
     ELSE IF fault = "execute"
     THEN /\ resp' = tag(Raised("get_notes", fault))
          /\ openConns' = conn_close(get_db(openConns))
     ELSE /\ resp' = tag([Returned("get_notes", 200, "list") EXCEPT
                            !.rows = NotesJson(OrderByIdDesc(
                                                 SelectNotes(notes, uid)))])
          /\ openConns' = conn_close(get_db(openConns))

update_note(c, note_id, title, content, fault) ==
  /\ UNCHANGED <<users, userSeq, noteSeq, session, reg, ghost>>
  /\ LET uid == session[c]
         tag(r) == [r EXCEPT !.user = uid, !.note_id = note_id]
         hit == {n \in notes : UpdateMatch(n, note_id, uid)}
     IN
     IF uid = Anonymous
     THEN /\ resp' = tag(Unauthorized("update_note"))
          /\ UNCHANGED <<notes, openConns>>
     ELSE IF fault = "execute"
     THEN /\ resp' = tag(Raised("update_note", fault))
          /\ openConns' = conn_close(get_db(openConns))
          /\ UNCHANGED notes
     ELSE IF hit = {}
     THEN /\ resp' = tag(Returned("update_note", 404, "Not found"))
          /\ openConns' = conn_close(get_db(openConns))
          /\ UNCHANGED notes
     ELSE /\ resp' = tag(Returned("update_note", 200, "updated"))
          /\ openConns' = conn_close(get_db(openConns))
          /\ notes' = (notes \ hit) \cup
                        {[n EXCEPT !.title = title, !.content = content] :
                           n \in hit}

delete_note(c, note_id, fault) ==
  /\ UNCHANGED <<users, userSeq, noteSeq, session, reg, registered, created>>
  /\ LET uid == session[c]
         tag(r) == [r EXCEPT !.user = uid, !.note_id = note_id]
         hit == {n \in notes : DeleteMatch(n, note_id, uid)}
     IN
     IF uid = Anonymous
     THEN /\ resp' = tag(Unauthorized("delete_note"))
          /\ UNCHANGED <<notes, openConns, deleted>>
     ELSE IF fault = "execute"
     THEN /\ resp' = tag(Raised("delete_note", fault))
          /\ openConns' = conn_close(get_db(openConns))
          /\ UNCHANGED <<notes, deleted>>
     ELSE IF hit = {}
     THEN /\ resp' = tag(Returned("delete_note", 404, "Not found"))
          /\ openConns' = conn_close(get_db(openConns))
          /\ UNCHANGED <<notes, deleted>>
     ELSE /\ resp' = tag(Returned("delete_note", 200, "deleted"))
          /\ openConns' = conn_close(get_db(openConns))
          /\ notes' = notes \ hit
          /\ deleted' = deleted \cup {<<uid, note_id>>}

get_single_note(c, note_id, fault) ==
  /\ UNCHANGED <<store, session, reg, ghost>>
  /\ LET uid == session[c]
         tag(r) == [r EXCEPT !.user = uid, !.note_id = note_id]
         hit == {n \in notes : GetMatch(n, note_id, uid)}
     IN
     IF uid = Anonymous
     THEN /\ resp' = tag(Unauthorized("get_single_note"))
          /\ UNCHANGED openConns
     ELSE IF fault = "execute"
     THEN /\ resp' = tag(Raised("get_single_note", fault))
          /\ openConns' = conn_close(get_db(openConns))
     ELSE IF hit = {}
     THEN /\ resp' = tag(Returned("get_single_note", 404, "Not found"))
          /\ openConns' = conn_close(get_db(openConns))
     ELSE /\ \E row \in hit :
               resp' = tag([Returned("get_single_note", 200, "note")
                              EXCEPT !.rows = <<NoteJson(row)>>])
          /\ openConns' = conn_close(get_db(openConns))

\* ---------------------------------------------------------------- others
health ==
  /\ resp' = Returned("health", 200, "ok")
  /\ UNCHANGED <<store, session, reg, openConns, ghost>>

\* GET /list-tables: no try/finally around the statement
list_tables(fault) ==
  /\ UNCHANGED <<store, session, reg, ghost>>
  /\ IF fault = "execute"
     THEN /\ Leaked < MaxConns
          /\ resp' = Raised("list_tables", fault)
          /\ openConns' = get_db(openConns)
     ELSE /\ resp' = Returned("list_tables", 200, "tables")
          /\ openConns' = conn_close(get_db(openConns))

\* ------------------------------------------------------------------ Next
\* Accounts and sessions: concurrent registrations, logins, faults.
NextAuth ==
  \/ \E w \in Workers, data \in RegisterBodies, salt \in Salts,
        fault \in FaultPoints : register(w, data, salt, fault)
  \/ \E w \in Workers, fault \in FaultPoints : register_insert(w, fault)
  \/ \E c \in Clients, data \in LoginBodies, fault \in FaultPoints :
        login(c, data, fault)
  \/ \E c \in Clients : logout(c)
  \/ health
  \/ \E fault \in FaultPoints : list_tables(fault)

SpecAuth == Init /\ [][NextAuth]_vars

\* Notes: two accounts registered one after the other, one browser that
\* logs in as either, and every notes handler with and without a session.
NoteAccounts ==
  { [present |-> TRUE, username |-> "alice", email |-> "a@x.com",
     password |-> "pw1"],
    [present |-> TRUE, username |-> "bob", email |-> "b@x.com",
     password |-> "pw2"] }

NoteLogins ==
  { [present |-> TRUE, email |-> a.email, password |-> a.password] :
      a \in NoteAccounts }

NextNotes ==
  \/ \E data \in NoteAccounts, salt \in Salts :
        register("w1", data, salt, "none")
  \/ register_insert("w1", "none")
  \/ \E data \in NoteLogins : login("c1", data, "none")
  \/ logout("c1")
  \/ \E t \in Titles, ct \in Contents, fault \in FaultPoints :
        create_note("c1", t, ct, fault)
  \/ \E fault \in FaultPoints : get_notes("c1", fault)
  \/ \E id \in NoteIds, t \in Titles, ct \in Contents,
        fault \in FaultPoints : update_note("c1", id, t, ct, fault)
  \/ \E id \in NoteIds, fault \in FaultPoints : delete_note("c1", id, fault)
  \/ \E id \in NoteIds, fault \in FaultPoints :
        get_single_note("c1", id, fault)

SpecNotes == Init /\ [][NextNotes]_vars

\* ================================================================ claims
ProtectedOps == {"create_note", "get_single_note", "update_note",
                 "delete_note"}

Handlers == {"register", "login", "create_note", "get_notes",
             "get_single_note", "update_note", "delete_note"}

RowSet(rows) == {rows[i] : i \in 1..Len(rows)}

\* position of a note identifier in the order of creation
CreatedAt(id) == CHOOSE k \in 1..Len(created) : created[k] = id

\* C1: a listing returned to a session of user U holds exactly the notes
\* owned by U, each once and with its stored title and content, and no
\* note of another owner.
OwnerIsolation ==
  (resp.op = "get_notes" /\ resp.kind = "returned" /\ resp.user # Anonymous)
    => LET mine == {n \in notes : n.user_id = resp.user}
       IN  /\ RowSet(resp.rows) = {NoteJson(n) : n \in mine}
           /\ Len(resp.rows) = Cardinality(mine)
           /\ \A r \in RowSet(resp.rows) :
                ~ \E n \in notes : n.id = r.id /\ n.user_id # resp.user

OwnerIsolationWitness ==
  /\ resp.op = "get_notes"
  /\ resp.kind = "returned"
  /\ resp.rows # <<>>
  /\ \E n \in notes : n.user_id # resp.user

\* C2: an update of note N answered to a session of a user who does not
\* own N reports 404 and leaves every note and every user as it was.
CrossOwnerUpdate ==
  [][ ( /\ resp'.op = "update_note"
        /\ resp'.kind = "returned"
        /\ resp'.user # Anonymous
        /\ \E n \in notes : n.id = resp'.note_id /\ n.user_id # resp'.user )
      => ( /\ resp'.status = 404
           /\ notes' = notes
           /\ users' = users ) ]_vars

CrossOwnerUpdateWitness ==
  /\ resp.op = "update_note"
  /\ resp.status = 404
  /\ resp.user # Anonymous
  /\ \E n \in notes : n.id = resp.note_id /\ n.user_id # resp.user

\* C3: no two stored users share an email and no two share a username,
\* whatever the interleaving of the registrations' checks and inserts.
UserUniqueness ==
  \A u, v \in users :
    u # v => (u.email # v.email /\ u.username # v.username)

\* two registrations passed the existence check and the second insert lost
UserUniquenessWitness ==
  /\ resp.op = "register"
  /\ resp.body = "duplicate key value violates unique constraint"
  /\ \E u \in users : u.email = resp.email

\* C4: a registration that adds no user because its username or email is
\* already stored answers 400, also when only the insert detects it.
DuplicateRegisterIs400 ==
  ( /\ resp.op = "register"
    /\ resp.kind = "returned"
    /\ resp.present
    /\ resp.fault = "none"
    /\ resp.status # 201
    /\ \E u \in users :
         u.email = resp.email \/ u.username = resp.username )
    => resp.status = 400

\* C5: a login sets the session, and answers 200, only for the email of a
\* stored user U with the password U registered with, and then the session
\* is U's; any other pair the handler answers gets 401 "Invalid
\* credentials" and leaves every session as it was, whether the email is
\* unknown or the password wrong.
LoginOnlyExactPair ==
  [][ (resp'.op = "login" /\ resp'.present)
      => LET match == <<resp'.email, resp'.password>> \in registered
         IN  /\ (resp'.status = 200 \/ session' # session)
                  => /\ match
                     /\ \E u \in users :
                          /\ u.email = resp'.email
                          /\ session'[resp'.client] = u.id
                     /\ \A d \in Clients \ {resp'.client} :
                          session'[d] = session[d]
             /\ (~match /\ resp'.kind = "returned")
                  => /\ resp'.status = 401
                     /\ resp'.body = "Invalid credentials"
                     /\ session' = session ]_vars

\* a wrong password for a registered email was refused
LoginOnlyExactPairWitness ==
  /\ resp.op = "login"
  /\ resp.present
  /\ resp.status = 401
  /\ \E u \in users : u.email = resp.email
  /\ <<resp.email, resp.password>> \notin registered

\* C6: without a session, create, get-one, update and delete answer 401
\* and change neither users nor notes, and the listing answers 200 with an
\* empty list.
AnonymousHandling ==
  [][ (resp'.user = Anonymous)
      => /\ (resp'.op \in ProtectedOps)
              => /\ resp'.kind = "returned"
                 /\ resp'.status = 401
                 /\ users' = users
                 /\ notes' = notes
         /\ (resp'.op = "get_notes")
              => /\ resp'.kind = "returned"
                 /\ resp'.status = 200
                 /\ resp'.rows = <<>> ]_vars

AnonymousHandlingWitness ==
  /\ resp.op = "delete_note"
  /\ resp.user = Anonymous
  /\ resp.status = 401
  /\ \E n \in notes : n.id = resp.note_id

\* C7: once an owner has deleted note id, no stored note has that
\* identifier again and every get of it answered to that owner is 404.
NoResurrection ==
  /\ \A p \in deleted : ~ \E n \in notes : n.id = p[2]
  /\ ( /\ resp.op = "get_single_note"
       /\ resp.kind = "returned"
       /\ <<resp.user, resp.note_id>> \in deleted )
       => resp.status = 404

\* a get of a deleted note after a later note was created
NoResurrectionWitness ==
  /\ resp.op = "get_single_note"
  /\ <<resp.user, resp.note_id>> \in deleted
  /\ resp.status = 404
  /\ \E n \in notes : n.user_id = resp.user

\* C8: when no request is being handled, no connection is open.
NoOpenConnections ==
  (\A w \in Workers : reg[w] = Idle) => openConns = 0

\* C9: a returned listing is in strictly descending identifier order, and
\* a note created later comes before a note created earlier.
ListingOrder ==
  (resp.op = "get_notes" /\ resp.kind = "returned")
    => \A i, j \in 1..Len(resp.rows) :
         i < j => /\ resp.rows[i].id > resp.rows[j].id
                  /\ CreatedAt(resp.rows[i].id) > CreatedAt(resp.rows[j].id)

ListingOrderWitness ==
  /\ resp.op = "get_notes"
  /\ resp.kind = "returned"
  /\ Len(resp.rows) >= 2

\* C10: a fault raised by a database statement makes the handler itself
\* return a 500 response.
FaultsBecome500 ==
  (resp.op \in Handlers /\ resp.fault = "execute")
    => (resp.kind = "returned" /\ resp.status = 500)

====
